---- MODULE Spec2Model ----
(***************************************************************************)
(* Model of the exchange-rate scripts of link-assistant/calculator:        *)
(*   scripts/download_historical_rates.py  (fetch with retry, the two      *)
(*       source adapters, write_consolidated_lino)                         *)
(*   scripts/consolidate_rates.py          (legacy per-day files folded    *)
(*       into one consolidated file per directory)                         *)
(* Rates are exact rationals <<num, den>>; dates are <<y, m, d>> tuples    *)
(* whose tuple order is the lexicographic order of the YYYY-MM-DD string.  *)
(***************************************************************************)
EXTENDS Integers, Sequences, FiniteSets, TLC

VARIABLES
    prog,        \* which entry point runs: "frankfurter", "cbr", "consolidate"
    pc,          \* position inside the running function
    runs,        \* number of invocations started so far
    files,       \* data/currency/{from}-{to}.lino : name of each existing file -> content
    all_rates,   \* the defaultdict(list) of a download function: pair -> list
    idx,         \* 1-based position in the configured list / sorted directory list
    attempt,     \* urlopen calls made for the URL fetched last
    sleeps,      \* time.sleep(1) calls made for the URL fetched last
    data,        \* what the last fetch returned: "pending", "ok" or "None"
    remaining,   \* Record elements of the current CBR response still to be processed
    dirs,        \* data/currency/{from}/{to}/ : directory -> listing of legacy files
    lino_files   \* main()'s listing of the directory being consolidated

vars ==
    <<prog, pc, runs, files, all_rates, idx, attempt, sleeps, data, remaining, dirs,
      lino_files>>

----------------------------------------------------------------------------
(* Bounds of the model *)

MaxRecords == 2     \* dates / Record elements in one provider response
MaxFiles == 2       \* legacy files in one directory
MaxRuns == 2        \* invocations of download_frankfurter_rates in a row

(* Program constants *)

MaxRetries == 3     \* max_retries

----------------------------------------------------------------------------
(* Text and number handling *)

Digits == {"0", "1", "2", "3", "4", "5", "6", "7", "8", "9"}

DigitVal(c) ==
    CASE c = "0" -> 0 [] c = "1" -> 1 [] c = "2" -> 2 [] c = "3" -> 3
      [] c = "4" -> 4 [] c = "5" -> 5 [] c = "6" -> 6 [] c = "7" -> 7
      [] c = "8" -> 8 [] c = "9" -> 9

RECURSIVE Horner(_, _)
Horner(s, acc) ==
    IF s = <<>> THEN acc ELSE Horner(Tail(s), acc * 10 + DigitVal(Head(s)))

RECURSIVE Pow10(_)
Pow10(n) == IF n = 0 THEN 1 ELSE 10 * Pow10(n - 1)

Abs(n) == IF n < 0 THEN -n ELSE n

RECURSIVE GCD(_, _)
GCD(a, b) == IF b = 0 THEN a ELSE GCD(b, a % b)

\* a rational in lowest terms with a positive denominator (den # 0)
Norm(n, d) ==
    LET g == GCD(Abs(n), Abs(d))
        s == IF d < 0 THEN -1 ELSE 1
    IN  <<(s * n) \div g, (s * d) \div g>>

\* a / b of two rationals, b # 0
Div(a, b) == Norm(a[1] * b[2], a[2] * b[1])

IsZero(a) == a[1] = 0

Positive(a) == a[1] > 0

Times(a, b) == Norm(a[1] * b[1], a[2] * b[2])

\* str.replace(old, new) on single characters
Replace(s, old, new) ==
    [i \in 1..Len(s) |-> IF s[i] = old THEN new ELSE s[i]]

Unsigned(s) == IF s # <<>> /\ Head(s) \in {"-", "+"} THEN Tail(s) ELSE s

Sign(s) == IF s # <<>> /\ Head(s) = "-" THEN -1 ELSE 1

\* float(text): optional sign, digits with at most one '.', at least one digit
ParseFloat(s) ==
    LET u == Unsigned(s)
        dots == {i \in 1..Len(u) : u[i] = "."}
        p == IF dots = {} THEN Len(u) + 1 ELSE CHOOSE i \in dots : TRUE
        ip == SubSeq(u, 1, p - 1)
        fp == SubSeq(u, p + 1, Len(u))
        good == /\ Cardinality(dots) <= 1
                /\ \A i \in 1..Len(u) : u[i] \in Digits \/ i \in dots
                /\ Len(ip) + Len(fp) >= 1
    IN  IF good
        THEN [ok |-> TRUE, val |-> Norm(Sign(s) * Horner(ip \o fp, 0), Pow10(Len(fp)))]
        ELSE [ok |-> FALSE, val |-> <<0, 1>>]

\* int(text): optional sign, at least one digit, nothing else
ParseInt(s) ==
    LET u == Unsigned(s)
        good == u # <<>> /\ \A i \in 1..Len(u) : u[i] \in Digits
    IN  IF good
        THEN [ok |-> TRUE, val |-> Sign(s) * Horner(u, 0)]
        ELSE [ok |-> FALSE, val |-> 0]

DaysIn(m, y) ==
    IF m \in {4, 6, 9, 11} THEN 30
    ELSE IF m = 2 THEN (IF y % 4 = 0 /\ (y % 100 # 0 \/ y % 400 = 0) THEN 29 ELSE 28)
    ELSE 31

\* datetime.strptime(date_attr, "%d.%m.%Y").strftime("%Y-%m-%d") on <<d, m, y>>
ParseCbrDate(a) ==
    IF a[2] \in 1..12 /\ a[1] \in 1..DaysIn(a[2], a[3])
    THEN [ok |-> TRUE, val |-> <<a[3], a[2], a[1]>>]
    ELSE [ok |-> FALSE, val |-> <<>>]

Upper(s) ==
    CASE s = "usd" -> "USD" [] s = "eur" -> "EUR" [] s = "gbp" -> "GBP"
      [] s = "rub" -> "RUB" [] OTHER -> s

Lower(s) ==
    CASE s = "USD" -> "usd" [] s = "EUR" -> "eur" [] s = "GBP" -> "gbp"
      [] s = "RUB" -> "rub" [] OTHER -> s

\* string comparison of two dates, as tuples
RECURSIVE DateLess(_, _)
DateLess(a, b) ==
    IF b = <<>> THEN FALSE
    ELSE IF a = <<>> THEN TRUE
    ELSE IF Head(a) # Head(b) THEN Head(a) < Head(b)
    ELSE DateLess(Tail(a), Tail(b))

\* insert e behind every element whose key is not greater (stable)
RECURSIVE InsertByDate(_, _)
InsertByDate(e, s) ==
    IF s = <<>> THEN <<e>>
    ELSE IF DateLess(e[1], Head(s)[1]) THEN <<e>> \o s
    ELSE <<Head(s)>> \o InsertByDate(e, Tail(s))

\* sorted(rates, key=lambda x: x[0]) / rates.sort(key=lambda x: x[0])
RECURSIVE SortByDate(_)
SortByDate(rates) ==
    IF rates = <<>> THEN <<>>
    ELSE InsertByDate(rates[Len(rates)], SortByDate(SubSeq(rates, 1, Len(rates) - 1)))

----------------------------------------------------------------------------
(* Configuration of download_historical_rates.py *)

\* the first entries of the list; every pair of the list has from # to
FRANKFURTER_PAIRS == << <<"USD", "EUR">>, <<"USD", "GBP">> >>

\* the first entries of the dict, in insertion order: <<cbr_code, currency>>
CBR_CURRENCIES == << <<"R01235", "USD">>, <<"R01239", "EUR">> >>

FRANKFURTER_SOURCE == "frankfurter.dev (ECB)"

CBR_SOURCE == "cbr.ru (Central Bank of Russia)"

----------------------------------------------------------------------------
(* Provider responses *)

D1 == <<2021, 1, 25>>

D2 == <<2021, 2, 1>>

\* sequences of length at most n over S
SeqsUpTo(S, n) == UNION {[1..k -> S] : k \in 0..n}

\* one date of a Frankfurter "rates" object: its day_rates holds one currency
FrEntries == [date : {D1, D2}, cur : {"EUR", "GBP"}, rate : {<<2, 1>>, <<0, 1>>}]

\* a decoded JSON body: without a "rates" key, or with one (object keys are unique)
FrResponses ==
    {[has_rates |-> FALSE, rates |-> <<>>]} \cup
    {[has_rates |-> TRUE, rates |-> s] :
        s \in {t \in SeqsUpTo(FrEntries, MaxRecords) :
                  \A i, j \in 1..Len(t) : i # j => t[i].date # t[j].date}}

NoElem == <<"None">>     \* record.find(...) is None
NoAttr == <<>>           \* record.get("Date") is None

GoodValue == <<"2", ",", "5">>

\* <Record Date=...><Nominal>..</Nominal><Value>..</Value></Record>
CbrRecords ==
    {[date |-> d, value |-> GoodValue, nominal |-> NoElem] :
        d \in {<<25, 1, 2021>>, <<1, 2, 2021>>, <<31, 2, 2021>>, NoAttr}}
    \cup
    {[date |-> <<25, 1, 2021>>, value |-> v, nominal |-> NoElem] :
        v \in {<<"0">>, <<"-", "2">>, <<"2", "x">>, <<>>, NoElem}}
    \cup
    {[date |-> <<25, 1, 2021>>, value |-> GoodValue, nominal |-> n] :
        n \in {<<"x">>, <<"0">>, <<"1", "0">>, <<>>}}

\* len(root.findall("Record")) of a response
CbrResponseSizes == 0..MaxRecords

----------------------------------------------------------------------------
(* download_historical_rates.py *)

\* all_rates[pair].append(entry) on a defaultdict(list)
AppendRate(ar, pair, entry) ==
    IF pair \in DOMAIN ar
    THEN [ar EXCEPT ![pair] = Append(@, entry)]
    ELSE [p \in DOMAIN ar \cup {pair} |-> IF p = pair THEN <<entry>> ELSE ar[p]]

\* the retry branch of fetch_json / fetch_xml: sleep unless this was the last attempt
ShouldSleepOff(a) == a < MaxRetries

ShouldSleep(a) == a < MaxRetries - 1

FileName(from_curr, to_curr) == <<Lower(from_curr), Lower(to_curr)>>

write_consolidated_lino_unsorted(from_curr, to_curr, rates, source) ==
    [from |-> Upper(from_curr), to |-> Upper(to_curr), source |-> source, data |-> rates]

\* the content written to {from}-{to}.lino
write_consolidated_lino(from_curr, to_curr, rates, source) ==
    [from |-> Upper(from_curr), to |-> Upper(to_curr), source |-> source,
     data |-> SortByDate(rates)]

\* the loop "for (from_curr, to_curr), rates in all_rates.items(): if rates: write"
WriteAll(fs, ar, source) ==
    LET written == {p \in DOMAIN ar : ar[p] # <<>>}
        names == {FileName(p[1], p[2]) : p \in written}
        pairOf(n) == CHOOSE p \in written : FileName(p[1], p[2]) = n
    IN  [n \in DOMAIN fs \cup names |->
            IF n \in names
            THEN write_consolidated_lino(pairOf(n)[1], pairOf(n)[2], ar[pairOf(n)], source)
            ELSE fs[n]]

\* the loop over data["rates"].items() for one pair
RECURSIVE FrankfurterRecords(_, _, _)
FrankfurterRecords(recs, pair, ar) ==
    IF recs = <<>> THEN ar
    ELSE LET r == Head(recs)
             next == IF r.cur = pair[2]
                     THEN AppendRate(ar, pair, <<r.date, r.rate>>)
                     ELSE ar
         IN  FrankfurterRecords(Tail(recs), pair, next)

\* one Record of a CBR response; aborted: an exception leaves the function
CbrRecord(r, currency, ar) ==
    LET dt == ParseCbrDate(r.date)
        rate == ParseFloat(Replace(r.value, ",", "."))
        nom == IF r.nominal # NoElem /\ r.nominal # <<>> /\ ParseInt(r.nominal).ok
               THEN ParseInt(r.nominal).val ELSE 1
        nominal == <<nom, 1>>
        first == AppendRate(ar, <<"RUB", currency>>, <<dt.val, Div(nominal, rate.val)>>)
    IN  IF ~(r.date # NoAttr /\ r.value # NoElem /\ r.value # <<>>)
        THEN [rates |-> ar, aborted |-> FALSE]
        ELSE IF ~dt.ok THEN [rates |-> ar, aborted |-> FALSE]
        ELSE IF ~rate.ok THEN [rates |-> ar, aborted |-> FALSE]
        ELSE IF IsZero(rate.val) THEN [rates |-> ar, aborted |-> TRUE]
        ELSE IF nom = 0 THEN [rates |-> first, aborted |-> TRUE]
        ELSE [rates |-> AppendRate(first, <<currency, "RUB">>,
                                   <<dt.val, Div(rate.val, nominal)>>),
              aborted |-> FALSE]

ConfigLen == IF prog = "frankfurter" THEN Len(FRANKFURTER_PAIRS) ELSE Len(CBR_CURRENCIES)

\* counters of the fetch call in progress (a new call starts from zero)
CurAttempt == IF data = "pending" THEN attempt ELSE 0

CurSleeps == IF data = "pending" THEN sleeps ELSE 0

AfterPair == IF idx + 1 > ConfigLen THEN "write" ELSE "fetch"

\* one iteration of the retry loop raises: sleep and retry, or give up with None;
\* with None the caller prints "no data" and moves on to the next pair / code
FetchFails ==
    /\ prog \in {"frankfurter", "cbr"}
    /\ pc = "fetch"
    /\ attempt' = CurAttempt + 1
    /\ sleeps' = IF ShouldSleep(CurAttempt) THEN CurSleeps + 1 ELSE CurSleeps
    /\ IF ShouldSleep(CurAttempt) /\ CurAttempt + 1 < MaxRetries
       THEN /\ data' = "pending"
            /\ UNCHANGED <<idx, pc>>
       ELSE /\ data' = "None"
            /\ idx' = idx + 1
            /\ pc' = AfterPair
    /\ UNCHANGED <<prog, runs, files, all_rates, remaining, dirs, lino_files>>

\* fetch_json returns a body at this attempt; the pair's dates are appended
FrankfurterFetched ==
    /\ prog = "frankfurter"
    /\ pc = "fetch"
    /\ \E resp \in FrResponses :
          all_rates' = IF resp.has_rates
                       THEN FrankfurterRecords(resp.rates, FRANKFURTER_PAIRS[idx], all_rates)
                       ELSE all_rates
    /\ attempt' = CurAttempt + 1
    /\ sleeps' = CurSleeps
    /\ data' = "ok"
    /\ idx' = idx + 1
    /\ pc' = AfterPair
    /\ UNCHANGED <<prog, runs, files, remaining, dirs, lino_files>>

\* fetch_xml returns a root at this attempt; the loop over its records starts
CbrFetched ==
    /\ prog = "cbr"
    /\ pc = "fetch"
    /\ attempt' = CurAttempt + 1
    /\ sleeps' = CurSleeps
    /\ data' = "ok"
    /\ remaining' \in CbrResponseSizes
    /\ pc' = "records"
    /\ UNCHANGED <<prog, runs, files, all_rates, idx, dirs, lino_files>>

\* one iteration of "for record in root.findall('Record')"
CbrRecordStep ==
    /\ prog = "cbr"
    /\ pc = "records"
    /\ remaining > 0
    /\ \E r \in CbrRecords :
          LET out == CbrRecord(r, CBR_CURRENCIES[idx][2], all_rates)
          IN  /\ all_rates' = out.rates
              /\ IF out.aborted
                 THEN pc' = "aborted" /\ remaining' = remaining
                 ELSE pc' = "records" /\ remaining' = remaining - 1
    /\ UNCHANGED <<prog, runs, files, idx, attempt, sleeps, data, dirs, lino_files>>

\* the records are exhausted: the count is printed and the next code follows
CbrRecordsDone ==
    /\ prog = "cbr"
    /\ pc = "records"
    /\ remaining = 0
    /\ idx' = idx + 1
    /\ pc' = AfterPair
    /\ UNCHANGED <<prog, runs, files, all_rates, attempt, sleeps, data, remaining, dirs,
                   lino_files>>

\* "Write consolidated files" of either download function
WriteFiles ==
    /\ prog \in {"frankfurter", "cbr"}
    /\ pc = "write"
    /\ files' = WriteAll(files, all_rates,
                         IF prog = "frankfurter" THEN FRANKFURTER_SOURCE ELSE CBR_SOURCE)
    /\ pc' = "done"
    /\ UNCHANGED <<prog, runs, all_rates, idx, attempt, sleeps, data, remaining, dirs, lino_files>>

\* download_frankfurter_rates is called again later, with another date range
RunAgain ==
    /\ prog = "frankfurter"
    /\ pc = "done"
    /\ runs < MaxRuns
    /\ runs' = runs + 1
    /\ all_rates' = <<>>
    /\ idx' = 1
    /\ pc' = "fetch"
    /\ UNCHANGED <<prog, files, attempt, sleeps, data, remaining, dirs, lino_files>>

----------------------------------------------------------------------------
(* consolidate_rates.py *)

None == ""               \* a field no line of the file sets

\* data/currency/{from}/{to}/ in the order main() visits them (sorted)
CURRENCY_DIRS == << <<"usd", "eur">>, <<"usd", "gbp">> >>

DirSet == {CURRENCY_DIRS[i] : i \in 1..Len(CURRENCY_DIRS)}

LegacyFile(readable, f, t, d, v) ==
    [readable |-> readable, from |-> f, to |-> t, date |-> d, value |-> v,
     source |-> FRANKFURTER_SOURCE]

\* the per-day files a directory may hold: valid ones for two dates, one declaring
\* another pair (and another value for D1), one with a value float() rejects, and
\* one read_text() cannot decode
LegacyFiles ==
    { LegacyFile(TRUE, "usd", "eur", D1, <<"1", ".", "5">>),
      LegacyFile(TRUE, "usd", "eur", D2, <<"1", ".", "5">>),
      LegacyFile(TRUE, "gbp", "usd", D1, <<"2", ".", "5">>),
      LegacyFile(TRUE, "usd", "eur", D1, <<"1", ",", "5">>),
      LegacyFile(FALSE, None, None, <<>>, <<>>) }

Listings == SeqsUpTo(LegacyFiles, MaxFiles)

\* (from_curr, to_curr, date, value, source) of one readable file
parse_lino_file(f) ==
    [from |-> IF f.from = None THEN None ELSE Upper(f.from),
     to |-> IF f.to = None THEN None ELSE Upper(f.to),
     date |-> f.date,
     has_value |-> ParseFloat(f.value).ok,
     value |-> ParseFloat(f.value).val,
     source |-> f.source]

\* "if fc and tc and date and value is not None", for a file that could be read
ValidLegacy(f) ==
    /\ f.readable
    /\ LET r == parse_lino_file(f)
       IN  r.from # None /\ r.to # None /\ r.date # <<>> /\ r.has_value

\* the loop over lino_files: acc is (from_curr, to_curr, source, rates)
RECURSIVE FoldLegacy(_, _)
FoldLegacy(listing, acc) ==
    IF listing = <<>> THEN acc
    ELSE LET f == Head(listing)
             r == parse_lino_file(f)
             next == IF ValidLegacy(f)
                     THEN [from |-> r.from, to |-> r.to,
                           source |-> IF r.source # None THEN r.source ELSE acc.source,
                           rates |-> Append(acc.rates, <<r.date, r.value>>)]
                     ELSE acc
         IN  FoldLegacy(Tail(listing), next)

EmptyAcc == [from |-> None, to |-> None, source |-> None, rates |-> <<>>]

consolidate_currency_pair_keep_empty(listing) ==
    LET acc == FoldLegacy(listing, EmptyAcc)
    IN  [some |-> listing # <<>>,
         from |-> acc.from, to |-> acc.to,
         source |-> IF acc.source # None THEN acc.source ELSE "unknown",
         rates |-> SortByDate(acc.rates)]

\* some = FALSE stands for the None the function returns
consolidate_currency_pair(listing) ==
    LET acc == FoldLegacy(listing, EmptyAcc)
    IN  [some |-> listing # <<>> /\ acc.rates # <<>>,
         from |-> acc.from, to |-> acc.to,
         source |-> IF acc.source # None THEN acc.source ELSE "unknown",
         rates |-> SortByDate(acc.rates)]

\* the content consolidate_rates.write_consolidated_lino writes
consolidate_write_consolidated_lino(d) ==
    [from |-> d.from, to |-> d.to, source |-> d.source, data |-> d.rates]

\* output_file = currency_dir / f"{from_curr.lower()}-{to_curr.lower()}.lino"
OutputFile(dir) == <<Lower(Upper(dir[1])), Lower(Upper(dir[2]))>>

AfterDir == IF idx + 1 > Len(CURRENCY_DIRS) THEN "done" ELSE "scan"

\* main(): list the directory, consolidate it and write the consolidated file
ConsolidateDir ==
    /\ prog = "consolidate"
    /\ pc = "scan"
    /\ LET dir == CURRENCY_DIRS[idx]
           d == consolidate_currency_pair(dirs[dir])
       IN  /\ lino_files' = dirs[dir]
           /\ IF dirs[dir] = <<>>
              THEN /\ pc' = AfterDir
                   /\ idx' = idx + 1
                   /\ files' = files
              ELSE IF d.some
              THEN /\ files' = [n \in DOMAIN files \cup {OutputFile(dir)} |->
                                   IF n = OutputFile(dir)
                                   THEN consolidate_write_consolidated_lino(d)
                                   ELSE files[n]]
                   /\ pc' = "unlink"
                   /\ idx' = idx
              ELSE /\ pc' = AfterDir
                   /\ idx' = idx + 1
                   /\ files' = files
    /\ UNCHANGED <<prog, runs, all_rates, attempt, sleeps, data, remaining, dirs>>

\* main(): "Remove old files": every listed file is unlinked
RemoveOldFiles ==
    /\ prog = "consolidate"
    /\ pc = "unlink"
    /\ dirs' = [dirs EXCEPT ![CURRENCY_DIRS[idx]] = <<>>]
    /\ idx' = idx + 1
    /\ pc' = AfterDir
    /\ UNCHANGED <<prog, runs, files, all_rates, attempt, sleeps, data, remaining, lino_files>>

----------------------------------------------------------------------------
(* Specification *)

Init ==
    /\ prog \in {"frankfurter", "cbr", "consolidate"}
    /\ pc = IF prog = "consolidate" THEN "scan" ELSE "fetch"
    /\ runs = 1
    /\ files = <<>>
    /\ all_rates = <<>>
    /\ idx = 1
    /\ attempt = 0
    /\ sleeps = 0
    /\ data = "pending"
    /\ remaining = 0
    /\ dirs \in [DirSet -> Listings]
    /\ prog # "consolidate" => \A d \in DirSet : dirs[d] = <<>>
    /\ lino_files = <<>>

Next ==
    \/ FetchFails
    \/ FrankfurterFetched
    \/ CbrFetched
    \/ CbrRecordStep
    \/ CbrRecordsDone
    \/ WriteFiles
    \/ RunAgain
    \/ ConsolidateDir
    \/ RemoveOldFiles

Spec == Init /\ [][Next]_vars

\* one attempt of the fetch in progress, however it ends
FetchAttempt == FetchFails \/ FrankfurterFetched \/ CbrFetched

\* one iteration of the loop over the records of a CBR response, or its end
RecordLoop == CbrRecordStep \/ CbrRecordsDone

\* an attempt that can be made is made and ends (urlopen has timeout=30 and the
\* sleeps are finite), and a loop over parsed records goes on to its next iteration
FairSpec == Spec /\ WF_vars(FetchAttempt) /\ WF_vars(RecordLoop)

----------------------------------------------------------------------------
(* Properties *)

Dates(rates) == {rates[i][1] : i \in 1..Len(rates)}

Lines(rates) == {rates[i] : i \in 1..Len(rates)}

RatesOf(pair) == IF pair \in DOMAIN all_rates THEN all_rates[pair] ELSE <<>>

\* C1: every consolidated file that is written holds each date on at most one line.
C1_OneRatePerDate ==
    \A n \in DOMAIN files :
        \A i, j \in 1..Len(files[n].data) :
            i # j => files[n].data[i][1] # files[n].data[j][1]

\* C2: when a download run writes a pair whose consolidated file already exists, the
\* written file keeps every line of the existing file whose date is not in the new
\* batch.
C2_MergesExisting ==
    [][ \A p \in DOMAIN all_rates :
          LET n == FileName(p[1], p[2])
          IN  (pc = "write" /\ pc' = "done" /\ n \in DOMAIN files) =>
                  \A e \in Lines(files[n].data) :
                      e[1] \notin Dates(all_rates[p]) => e \in Lines(files'[n].data)
      ]_vars

\* C3: no Provider B record aborts download_cbr_rates: the run never ends in an
\* uncaught exception, whatever the records (zero values and nominals included).
C3_NoRecordAborts == prog = "cbr" => pc # "aborted"

\* C4: every triple appended to all_rates has from_currency # to_currency and
\* rate > 0.
C4_ValidTriples ==
    \A p \in DOMAIN all_rates :
        /\ p[1] # p[2]
        /\ \A i \in 1..Len(all_rates[p]) : Positive(all_rates[p][i][2])

\* C5: a fetch makes at most MaxRetries attempts and sleeps between attempts only
\* (never after the last one); the fetch returns None exactly after MaxRetries failed
\* attempts, and then the pair / code adds no triple and no file and the loop goes on
\* with the next configured entry; pairs / codes are visited one by one in the
\* configured order and the write phase starts only after the last one; no sequence
\* of fetch failures keeps the run from leaving the fetch loop.
C5_Counts ==
    prog \in {"frankfurter", "cbr"} =>
        /\ attempt <= MaxRetries
        /\ data = "pending" => attempt < MaxRetries /\ sleeps = attempt
        /\ data = "ok" => attempt >= 1 /\ sleeps = attempt - 1
        /\ data = "None" => attempt = MaxRetries /\ sleeps = MaxRetries - 1

C5_Step ==
    /\ pc \in {"fetch", "records"} =>
          /\ idx' \in {idx, idx + 1}
          /\ pc' = "write" => idx = ConfigLen /\ idx' = idx + 1
    /\ pc = "fetch" =>
          /\ idx' = idx /\ pc' = "fetch" => data' = "pending"
          /\ data' = "None" =>
                /\ all_rates' = all_rates
                /\ files' = files
                /\ idx' = idx + 1
                /\ pc' = AfterPair

C6_BothDirections ==
    prog = "cbr" =>
        \A c \in 1..Len(CBR_CURRENCIES) :
            LET cur == CBR_CURRENCIES[c][2]
                a == RatesOf(<<"RUB", cur>>)
                b == RatesOf(<<cur, "RUB">>)
            IN  /\ Len(a) = Len(b)
                /\ \A k \in 1..Len(a) :
                      k <= Len(b) =>
                          a[k][1] = b[k][1] /\ Times(a[k][2], b[k][2]) = <<1, 1>>

\* C7: the consolidated file written for a directory is named by the lowercase pair
\* its header declares, and every valid legacy file of the directory is in the
\* consolidated file whose header is the pair that file declares.
C7_GroupedByDeclaredPair ==
    prog = "consolidate" =>
        /\ \A n \in DOMAIN files : n = FileName(files[n].from, files[n].to)
        /\ pc = "unlink" =>
              \A i \in 1..Len(lino_files) :
                  ValidLegacy(lino_files[i]) =>
                      LET r == parse_lino_file(lino_files[i])
                          n == FileName(r.from, r.to)
                      IN  /\ n \in DOMAIN files
                          /\ files[n].from = r.from
                          /\ files[n].to = r.to
                          /\ <<r.date, r.value>> \in Lines(files[n].data)

\* C8: the data lines of every consolidated file are in ascending order of their
\* date.
C8_SortedByDate ==
    \A n \in DOMAIN files :
        \A i \in 1..Len(files[n].data) - 1 :
            ~DateLess(files[n].data[i + 1][1], files[n].data[i][1])

\* the provider sent the later date first and the file holds both dates
C8_Witness ==
    /\ prog = "cbr"
    /\ pc = "done"
    /\ <<"RUB", "USD">> \in DOMAIN all_rates
    /\ Len(all_rates[<<"RUB", "USD">>]) = 2
    /\ all_rates[<<"RUB", "USD">>][1][1] = D2
    /\ all_rates[<<"RUB", "USD">>][2][1] = D1
    /\ <<"rub", "usd">> \in DOMAIN files
    /\ Len(files[<<"rub", "usd">>].data) = 2

\* C9: every file that is written has at least one data line, and a file is written
\* only for a pair that obtained a triple (a directory that holds a valid file).
C9_NonEmpty == \A n \in DOMAIN files : Len(files[n].data) >= 1

C9_Step ==
    \A n \in DOMAIN files' :
        (n \notin DOMAIN files \/ files'[n] # files[n]) =>
            IF prog = "consolidate"
            THEN \E d \in DirSet :
                    /\ OutputFile(d) = n
                    /\ \E i \in 1..Len(dirs[d]) : ValidLegacy(dirs[d][i])
            ELSE \E p \in DOMAIN all_rates :
                    FileName(p[1], p[2]) = n /\ all_rates[p] # <<>>

C9_NoEmptySeries == []C9_NonEmpty /\ [][C9_Step]_vars

\* the first directory held files but no valid one and got no consolidated file; the
\* second one was consolidated
C9_Witness ==
    /\ prog = "consolidate"
    /\ pc = "done"
    /\ dirs[CURRENCY_DIRS[1]] # <<>>
    /\ OutputFile(CURRENCY_DIRS[1]) \notin DOMAIN files
    /\ OutputFile(CURRENCY_DIRS[2]) \in DOMAIN files

\* C10: a legacy file is deleted only when the consolidated file of its directory has
\* been written, it is a valid file, and its (date, value) is in that consolidated
\* file; files that fail to parse or lack a field stay.
C10_NoDataLost ==
    [][ \A d \in DirSet :
          \A i \in 1..Len(dirs[d]) :
              dirs'[d] = <<>> =>
                  /\ OutputFile(d) \in DOMAIN files
                  /\ ValidLegacy(dirs[d][i])
                  /\ <<dirs[d][i].date, ParseFloat(dirs[d][i].value).val>>
                         \in Lines(files[OutputFile(d)].data)
      ]_vars

====
